---------------------------- MODULE Spec2Model ----------------------------
(***************************************************************************)
(* A model of qltrcs (src/qltrcs/api.py, src/qltrcs/_util.py): one        *)
(* QualtricsAPIAgent, the request dispatcher send_api_request with its     *)
(* retry/backoff policy, and the endpoint operations built on it.          *)
(*                                                                         *)
(* Strings are sequences of tokens (each token a TLA+ string), so that     *)
(* concatenation, prefix tests and the ID regular expressions are computed *)
(* and not assumed.  Time is counted in milliseconds.                      *)
(*                                                                         *)
(* Three specifications: SpecDispatch, a caller calling send_api_request;  *)
(* Spec, the endpoint operations, one per behaviour; SpecPair, two         *)
(* send_api_request calls on the one agent with their steps interleaved.   *)
(***************************************************************************)
EXTENDS Integers, Sequences, FiniteSets, TLC

VARIABLES
    attrs,      \* the instance attributes of the agent
    pc,         \* where the running operation stands
    op,         \* the running (or last) operation and its arguments
    fr,         \* the active send_api_request frame
    resp,       \* the response the active frame received (line 55)
    ret,        \* how the last send_api_request call ended
    loc,        \* the local variables of the running operation
    reqs,       \* HTTP requests handed to the transport, in order
    resps,      \* the status the transport answered each request with
    sleeps,     \* time.sleep calls, each with the number of requests before it
    calls,      \* send_api_request calls made by the operation, in order
    faults,     \* non-success answers given to the running endpoint operation
    outcome,    \* how the last operation ended
    fs,         \* the file export_survey is told to write
    th          \* the frames of send_api_request calls running side by side

vars == <<attrs, pc, op, fr, resp, ret, loc, reqs, resps, sleeps, calls, faults, outcome,
          fs, th>>

(***************************************************************************)
(* Bounds of the model.                                                    *)
(***************************************************************************)
\* largest max_retries a direct send_api_request call is given
MaxRetriesArg == 3
\* non-success answers the transport gives during one endpoint operation
MaxFaults == 1
\* pages a collection has at most
MaxPages == 3
\* progress polls that do not say 'complete', per export
MaxPending == 2
\* entries of a downloaded archive at most
MaxEntries == 2
\* largest max_retries of two calls running side by side
MaxRetriesPair == 1

(***************************************************************************)
(* Program constants.                                                      *)
(***************************************************************************)
DefaultMaxRetries == 5
DefaultDelay == 10
PollWaitMs == 500
MsPerSecond == 1000

(***************************************************************************)
(* Strings and small helpers.                                              *)
(***************************************************************************)
RECURSIVE Pow2(_)
Pow2(n) == IF n = 0 THEN 1 ELSE 2 * Pow2(n - 1)

RECURSIVE SumSeq(_)
SumSeq(s) == IF s = <<>> THEN 0 ELSE Head(s) + SumSeq(Tail(s))

RECURSIVE Flatten(_)
Flatten(ss) == IF ss = <<>> THEN <<>> ELSE Head(ss) \o Flatten(Tail(ss))

\* s.startswith('http')
StartsWithHttp(s) == Len(s) >= 1 /\ s[1] = "http"

NoAttr == "<no such attribute>"
Tokens == {"tokA"}
\* the data center the agent is constructed with, and those a caller assigns
ConstructedDataCenter == "co1"
DataCenters == {"ca1"}
\* the delay (seconds) arguments of direct send_api_request calls
Delays == {1, 3}

(***************************************************************************)
(* Headers (api.py 19-28, 46-49).                                          *)
(***************************************************************************)
DefaultHeaders ==
    [k \in {"Content-Type", "Accept", "X-API-TOKEN"} |->
        IF k = "X-API-TOKEN" THEN attrs.api_token ELSE "application/json"]

\* {**a, **b}
MergeLeftWins(a, b) ==
    [k \in DOMAIN a \cup DOMAIN b |-> IF k \in DOMAIN a THEN a[k] ELSE b[k]]

Merge(a, b) ==
    [k \in DOMAIN a \cup DOMAIN b |-> IF k \in DOMAIN b THEN b[k] ELSE a[k]]

\* the headers argument: None (not a dict) or a dict
NoHeaders == [isdict |-> FALSE, map |-> <<>>]
Dict(m) == [isdict |-> TRUE, map |-> m]

MergedHeaders(h) == IF h.isdict THEN Merge(DefaultHeaders, h.map) ELSE DefaultHeaders

(***************************************************************************)
(* URL resolution (api.py 15-17, 51-54).                                   *)
(***************************************************************************)
HasDataCenter == attrs.data_center # NoAttr

url_prefix == <<"http", "s://", attrs.data_center, ".qualtrics.com/API/v3/">>

Resolve(path) == IF ~StartsWithHttp(path) THEN url_prefix \o path ELSE path

\* reading self.data_center raises AttributeError when the attribute is missing
ResolveFails(path) == ~StartsWithHttp(path) /\ ~HasDataCenter

(***************************************************************************)
(* Retry policy (api.py 56-61).                                            *)
(***************************************************************************)
ServerErrorsWithout504 == {500, 503}

ServerErrors == {500, 503, 504}
RateLimited == 429
Statuses == {200, 404, 429, 500, 502, 503, 504}

\* requests.Response.ok
Ok(status) == status < 400

Reason(status) ==
    CASE status = 200 -> "OK"
      [] status = 404 -> "Not Found"
      [] status = 429 -> "Too Many Requests"
      [] status = 500 -> "Internal Server Error"
      [] status = 502 -> "Bad Gateway"
      [] status = 503 -> "Service Unavailable"
      [] status = 504 -> "Gateway Timeout"

\* retry <= max_retries
AttemptsRemain(retry, max_retries) == retry <= max_retries

WaitTimeLinear(delay, retry) == MsPerSecond * delay * (2 * retry)

\* delay*(2**retry), in milliseconds
WaitTime(delay, retry) == MsPerSecond * delay * Pow2(retry)


(***************************************************************************)
(* Frames, returns and outcomes.                                           *)
(***************************************************************************)
NoFrame ==
    [path |-> <<>>, method |-> "", headers |-> <<>>, url |-> <<>>,
     retry |-> 0, max_retries |-> 0, delay |-> 0, kw |-> <<>>]

NoEnvelope == [hasError |-> FALSE, errorMessage |-> ""]

NoRet ==
    [kind |-> "none", exc |-> "", status |-> 0, reason |-> "", message |-> "",
     envelope |-> NoEnvelope, nresp |-> 0]

\* an exception other than QualtricsException
Raised(exc) == [NoRet EXCEPT !.kind = "raise", !.exc = exc]

NoOutcome == [kind |-> "none", exc |-> "", status |-> 0, reason |-> "", message |-> "",
              value |-> <<>>]

RaisedOutcome(exc) == [NoOutcome EXCEPT !.kind = "raise", !.exc = exc]

\* the exception (or response) in ret leaves the operation unchanged
OutcomeOfRet(r) ==
    [kind |-> r.kind, exc |-> r.exc, status |-> r.status, reason |-> r.reason,
     message |-> r.message, value |-> <<>>]

NoLoc ==
    [acc |-> <<>>, nextPage |-> [kind |-> "null", url |-> <<>>], pages |-> <<>>,
     progress_id |-> <<>>, file_id |-> <<>>, polls |-> <<>>, archive |-> <<>>,
     step |-> ""]

NoFilename == <<>>
NoOp == [name |-> "", id |-> <<>>, format |-> "", flag |-> FALSE, filename |-> NoFilename]

(***************************************************************************)
(* send_api_request, lines 46-54: merge the headers, resolve the URL.      *)
(* Used by every call and by every recursive call.                         *)
(***************************************************************************)
Invoke(path, method, h, retry, max_retries, delay, kw) ==
    IF ResolveFails(path)
    THEN /\ ret' = Raised("AttributeError")
         /\ pc' = "returned"
         /\ fr' = NoFrame
    ELSE /\ fr' = [path |-> path, method |-> method, headers |-> MergedHeaders(h),
                   url |-> Resolve(path), retry |-> retry,
                   max_retries |-> max_retries, delay |-> delay, kw |-> kw]
         /\ pc' = "request"
         /\ ret' = NoRet

\* a call made by an operation (or by the caller): logged, then entered
Call(path, method, h, max_retries, delay, kw, nreqs) ==
    [path |-> path, method |-> method, headers |-> h, max_retries |-> max_retries,
     delay |-> delay, kw |-> kw, first |-> nreqs + 1]

\* the first call of an operation, with the default max_retries and delay
FirstDispatch(path, method, kw) ==
    /\ calls' = <<Call(path, method, NoHeaders, DefaultMaxRetries, DefaultDelay, kw, 0)>>
    /\ outcome' = NoOutcome
    /\ Invoke(path, method, NoHeaders, 0, DefaultMaxRetries, DefaultDelay, kw)

\* a later call of an operation, with the default max_retries and delay
Dispatch(path, method, kw) ==
    /\ calls' = Append(calls, Call(path, method, NoHeaders, DefaultMaxRetries,
                                   DefaultDelay, kw, Len(reqs)))
    /\ Invoke(path, method, NoHeaders, 0, DefaultMaxRetries, DefaultDelay, kw)

(***************************************************************************)
(* The caller calls send_api_request directly.                             *)
(***************************************************************************)
HeaderArgs ==
    { NoHeaders,
      Dict(("X-API-TOKEN" :> "tokB") @@ ("X-Extra" :> "v")) }

\* what a direct caller asks for: path, method and the keyword arguments
\* handed on to requests.request
DirectRequests ==
    { [path |-> <<"/whoami">>, method |-> "GET", kw |-> <<>>],
      [path |-> <<"http", "s://srv.example/API/v3/users?offset=2">>, method |-> "PUT",
       kw |-> <<"json", "status", "active">>] }

\* An operation starts on an idle agent.  A behaviour holds one operation:
\* the agent keeps nothing between operations but attrs, which no operation
\* writes.
Begin(o) ==
    /\ pc = "idle"
    /\ op' = o
    /\ loc' = NoLoc
    /\ reqs' = <<>>
    /\ resps' = <<>>
    /\ sleeps' = <<>>
    /\ faults' = 0
    /\ resp' = 0
    /\ UNCHANGED <<th, fs, attrs>>

CallSendApiRequest ==
    \E r \in DirectRequests, h \in HeaderArgs,
       max_retries \in 0..MaxRetriesArg, delay \in Delays :
        /\ Begin([NoOp EXCEPT !.name = "send_api_request"])
        /\ calls' = <<Call(r.path, r.method, h, max_retries, delay, r.kw, 0)>>
        /\ outcome' = NoOutcome
        /\ Invoke(r.path, r.method, h, 0, max_retries, delay, r.kw)

(***************************************************************************)
(* send_api_request, line 55: the request goes out and is answered.        *)
(***************************************************************************)
\* one status of each class the dispatcher tells apart: success, terminal
\* error, rate limit, server error
StatusClasses == {200, 404, 429, 503}

\* A direct call is answered with any status at every attempt.  An endpoint
\* operation is answered with one status of each class; it meets at most
\* MaxFaults separate failures, and an outage: once the failures are used up,
\* an attempt being retried may be answered as the attempt before it was, and
\* from then on the call is answered so until it gives up.
MayAnswer(status) ==
    IF op.name = "send_api_request" THEN TRUE
    ELSE /\ status \in StatusClasses
         /\ IF faults > MaxFaults /\ fr.retry >= 1 THEN status = resp
            ELSE \/ Ok(status)
                 \/ faults < MaxFaults
                 \/ fr.retry >= 1 /\ status = resp

Transport ==
    /\ pc = "request"
    /\ \E status \in Statuses :
        /\ MayAnswer(status)
        /\ reqs' = Append(reqs, [method |-> fr.method, url |-> fr.url,
                                 headers |-> fr.headers, kw |-> fr.kw])
        /\ resps' = Append(resps, status)
        /\ resp' = status
        /\ faults' = IF Ok(status) THEN faults ELSE faults + 1
    /\ pc' = "classify"
    /\ UNCHANGED <<th, fs, attrs, op, fr, ret, loc, sleeps, calls, outcome>>

(***************************************************************************)
(* send_api_request, lines 56-64: classify the answer.                     *)
(***************************************************************************)
RetriesServerError == resp \in ServerErrors /\ AttemptsRemain(fr.retry, fr.max_retries)

RetriesRateLimited ==
    /\ ~RetriesServerError
    /\ resp = RateLimited
    /\ AttemptsRemain(fr.retry, fr.max_retries)

RetryServerErrorUncounted ==
    /\ pc = "classify"
    /\ RetriesServerError
    /\ Invoke(fr.path, fr.method, Dict(fr.headers), fr.retry,
              fr.max_retries, fr.delay, fr.kw)
    /\ UNCHANGED <<th, fs, attrs, op, resp, loc, reqs, resps, sleeps, calls, faults, outcome>>

RetryServerErrorWithBackoff ==
    /\ pc = "classify"
    /\ RetriesServerError
    /\ sleeps' = Append(sleeps, [ms |-> WaitTime(fr.delay, fr.retry), after |-> Len(reqs)])
    /\ Invoke(fr.path, fr.method, Dict(fr.headers), fr.retry + 1,
              fr.max_retries, fr.delay, fr.kw)
    /\ UNCHANGED <<th, fs, attrs, op, resp, loc, reqs, resps, calls, faults, outcome>>

\* lines 56-57
RetryServerError ==
    /\ pc = "classify"
    /\ RetriesServerError
    /\ Invoke(fr.path, fr.method, Dict(fr.headers), fr.retry + 1,
              fr.max_retries, fr.delay, fr.kw)
    /\ UNCHANGED <<th, fs, attrs, op, resp, loc, reqs, resps, sleeps, calls, faults, outcome>>

RetryRateLimitedDoublingDelay ==
    /\ pc = "classify"
    /\ RetriesRateLimited
    /\ sleeps' = Append(sleeps, [ms |-> WaitTime(fr.delay, fr.retry), after |-> Len(reqs)])
    /\ Invoke(fr.path, fr.method, Dict(fr.headers), fr.retry + 1,
              fr.max_retries, 2 * fr.delay, fr.kw)
    /\ UNCHANGED <<th, fs, attrs, op, resp, loc, reqs, resps, calls, faults, outcome>>

\* lines 58-61
RetryRateLimited ==
    /\ pc = "classify"
    /\ RetriesRateLimited
    /\ sleeps' = Append(sleeps, [ms |-> WaitTime(fr.delay, fr.retry), after |-> Len(reqs)])
    /\ Invoke(fr.path, fr.method, Dict(fr.headers), fr.retry + 1,
              fr.max_retries, fr.delay, fr.kw)
    /\ UNCHANGED <<th, fs, attrs, op, resp, loc, reqs, resps, calls, faults, outcome>>

\* what the error envelope of a non-success answer may hold
ErrorEnvelopes ==
    { [hasError |-> TRUE, errorMessage |-> "e1"],
      [hasError |-> TRUE, errorMessage |-> "e2"],
      NoEnvelope }

QualtricsExceptionWithoutMessage(status, env) ==
    [kind |-> "raise", exc |-> "QualtricsException", status |-> status,
     reason |-> Reason(status), message |-> "", envelope |-> env, nresp |-> Len(resps)]

\* QualtricsException.__init__ (_util.py 34-38): the message is read from
\* meta.error of the envelope; an envelope without it raises KeyError instead
QualtricsException(status, env) ==
    IF env.hasError
    THEN [kind |-> "raise", exc |-> "QualtricsException", status |-> status,
          reason |-> Reason(status), message |-> env.errorMessage,
          envelope |-> env, nresp |-> Len(resps)]
    ELSE [Raised("KeyError") EXCEPT !.envelope = env, !.nresp = Len(resps)]

\* lines 62-63
RaiseApiError ==
    /\ pc = "classify"
    /\ ~RetriesServerError
    /\ ~RetriesRateLimited
    /\ ~Ok(resp)
    /\ \E env \in ErrorEnvelopes : ret' = QualtricsException(resp, env)
    /\ pc' = "returned"
    /\ UNCHANGED <<th, fs, attrs, op, fr, resp, loc, reqs, resps, sleeps, calls, faults, outcome>>

\* line 64
ReturnResponse ==
    /\ pc = "classify"
    /\ ~RetriesServerError
    /\ ~RetriesRateLimited
    /\ Ok(resp)
    /\ ret' = [NoRet EXCEPT !.kind = "return", !.status = resp,
                            !.reason = Reason(resp), !.nresp = Len(resps)]
    /\ pc' = "returned"
    /\ UNCHANGED <<th, fs, attrs, op, fr, resp, loc, reqs, resps, sleeps, calls, faults, outcome>>

(***************************************************************************)
(* The direct call ends: the response or the exception reaches the caller. *)
(***************************************************************************)
SendApiRequestReturns ==
    /\ pc = "returned"
    /\ op.name = "send_api_request"
    /\ ret.kind = "return"
    /\ outcome' = [OutcomeOfRet(ret) EXCEPT !.value = <<ret.nresp>>]
    /\ pc' = "done"
    /\ UNCHANGED <<th, fs, attrs, op, fr, resp, ret, loc, reqs, resps, sleeps, calls, faults>>

CatchesApiErrorOnly ==
    op.name = "get_user_api_token" /\ loc.step = "" /\ ret.exc = "QualtricsException"

\* an exception nobody catches leaves the operation
\* the try block of get_user_api_token (lines 230-232) holds its first call
CatchesException == op.name = "get_user_api_token" /\ loc.step = ""

PropagatePartialResult ==
    /\ pc = "returned"
    /\ ret.kind = "raise"
    /\ ~CatchesException
    /\ outcome' = [NoOutcome EXCEPT !.kind = "return", !.value = loc.acc]
    /\ pc' = "done"
    /\ UNCHANGED <<th, fs, attrs, op, fr, resp, ret, loc, reqs, resps, sleeps, calls, faults>>

Propagate ==
    /\ pc = "returned"
    /\ ret.kind = "raise"
    /\ ~CatchesException
    /\ outcome' = OutcomeOfRet(ret)
    /\ pc' = "done"
    /\ UNCHANGED <<th, fs, attrs, op, fr, resp, ret, loc, reqs, resps, sleeps, calls, faults>>

(***************************************************************************)
(* How an endpoint operation ends.                                         *)
(***************************************************************************)
Return(value) ==
    /\ outcome' = [NoOutcome EXCEPT !.kind = "return", !.value = value]
    /\ pc' = "done"
    /\ UNCHANGED <<fr, ret, calls>>

Raise(exc) ==
    /\ outcome' = RaisedOutcome(exc)
    /\ pc' = "done"
    /\ UNCHANGED <<fr, ret, calls>>

\* send_api_request has returned a response to the running operation
Returned(name, step) ==
    /\ pc = "returned"
    /\ ret.kind = "return"
    /\ op.name = name
    /\ loc.step = step

(***************************************************************************)
(* Paginated collections (api.py 110-121, 137-155).  The server decides    *)
(* each page: its elements and whether nextPage is a URL, null or absent.  *)
(***************************************************************************)
ElementLists == { <<>>, <<"b", "a">>, <<"a", "a">> }

\* the absolute URL the server gives as nextPage on page n
NextPageUrl(n) == <<"http", "s://srv.example/API/v3/list?offset=">> \o [j \in 1..n |-> "+"]

NullPage == [kind |-> "null", url |-> <<>>]
AbsentPage == [kind |-> "absent", url |-> <<>>]

NextPages(n) ==
    {NullPage, AbsentPage}
        \cup (IF n < MaxPages THEN {[kind |-> "url", url |-> NextPageUrl(n)]} ELSE {})

Pages(n) == [elements : ElementLists, nextPage : NextPages(n)]

ExtendInFront(acc, elements) == elements \o acc

\* users.extend(elements), surveys += elements
Extend(acc, elements) == acc \o elements

\* result.get('nextPage'): None when the key is absent
GetNextPage(page) == IF page.nextPage.kind = "absent" THEN NullPage ELSE page.nextPage

CallListUsers ==
    /\ Begin([NoOp EXCEPT !.name = "list_users"])
    /\ FirstDispatch(<<"/users">>, "GET", <<>>)

\* lines 117-121: follow nextPage or return the users
ListUsersLoop(users, nextPage, page) ==
    /\ loc' = [loc EXCEPT !.acc = users, !.nextPage = nextPage,
                          !.pages = Append(@, page), !.step = "loop"]
    /\ IF nextPage.kind # "null"
       THEN /\ Dispatch(nextPage.url, "GET", <<>>)
            /\ UNCHANGED outcome
       ELSE Return(users)
    /\ UNCHANGED <<th, fs, attrs, op, resp, reqs, resps, sleeps, faults>>

\* lines 115-117
ListUsersFirstPage ==
    /\ Returned("list_users", "")
    /\ \E page \in Pages(Len(loc.pages) + 1) :
          ListUsersLoop(page.elements, GetNextPage(page), page)

\* lines 119-120, 117
ListUsersNextPage ==
    /\ Returned("list_users", "loop")
    /\ \E page \in Pages(Len(loc.pages) + 1) :
          ListUsersLoop(Extend(loc.acc, page.elements), GetNextPage(page), page)

CallListSurveys ==
    /\ \E first_page_only \in BOOLEAN :
          Begin([NoOp EXCEPT !.name = "list_surveys", !.flag = first_page_only])
    /\ FirstDispatch(<<"/surveys">>, "GET", <<>>)

\* lines 146-151: result['nextPage'] raises KeyError when the key is absent
ListSurveysFirstPage ==
    /\ Returned("list_surveys", "")
    /\ \E page \in Pages(Len(loc.pages) + 1) :
        /\ loc' = [loc EXCEPT !.acc = page.elements, !.nextPage = page.nextPage,
                              !.pages = Append(@, page), !.step = "loop"]
        /\ IF page.nextPage.kind = "absent"
           THEN Raise("KeyError")
           ELSE IF page.nextPage.kind = "null" \/ op.flag
                THEN Return(page.elements)
                ELSE /\ Dispatch(page.nextPage.url, "GET", <<>>)
                     /\ UNCHANGED outcome
    /\ UNCHANGED <<th, fs, attrs, op, resp, reqs, resps, sleeps, faults>>

\* lines 153-154, 151, 152, 155
ListSurveysNextPage ==
    /\ Returned("list_surveys", "loop")
    /\ \E page \in Pages(Len(loc.pages) + 1) :
        LET surveys == Extend(loc.acc, page.elements) IN
        /\ loc' = [loc EXCEPT !.acc = surveys, !.nextPage = page.nextPage,
                              !.pages = Append(@, page)]
        /\ IF page.nextPage.kind = "absent"
           THEN Raise("KeyError")
           ELSE IF page.nextPage.kind = "null"
                THEN Return(surveys)
                ELSE /\ Dispatch(page.nextPage.url, "GET", <<>>)
                     /\ UNCHANGED outcome
    /\ UNCHANGED <<th, fs, attrs, op, resp, reqs, resps, sleeps, faults>>

(***************************************************************************)
(* Identifier validation (_util.py 4-10).  An identifier is a sequence of  *)
(* characters.                                                             *)
(***************************************************************************)
\* characters of the class [0-9a-zA-Z] that occur in the identifiers below
Alnum == {"a", "Z", "7", "S", "V", "U", "R", "H"}

\* re.match('^(p1|p2|...)[0-9a-zA-Z]{11,15}$', s): one of the prefixes, 11 to
\* 15 characters of the class, then the end of s or a newline that ends s
ReMatch(prefixes, s) ==
    \E p \in prefixes :
        /\ Len(s) >= Len(p)
        /\ SubSeq(s, 1, Len(p)) = p
        /\ \E m \in 11..15 :
              /\ Len(s) >= Len(p) + m
              /\ \A i \in 1..m : s[Len(p) + i] \in Alnum
              /\ \/ Len(s) = Len(p) + m
                 \/ Len(s) = Len(p) + m + 1 /\ s[Len(s)] = "\n"

AcceptsAnyId(id) == TRUE

verify_survey_id(id) == ReMatch({<<"S", "V", "_">>}, id)

verify_user_id(id) == ReMatch({<<"U", "R", "_">>, <<"U", "R", "H", "_">>}, id)

Id(prefix, n, tail) == prefix \o [i \in 1..n |-> "a"] \o tail

\* identifiers the caller passes
IdArgs ==
    { Id(<<"S", "V", "_">>, 11, <<>>),
      Id(<<"S", "V", "_">>, 10, <<>>),
      Id(<<"S", "V", "_">>, 16, <<>>),
      Id(<<"S", "V", "_">>, 11, <<"-">>),
      Id(<<"S", "V">>, 12, <<>>),
      Id(<<"U", "R", "_">>, 11, <<>>),
      Id(<<"U", "R", "H", "_">>, 15, <<"\n">>),
      Id(<<"U", "R", "_">>, 15, <<"\n", "\n">>),
      Id(<<"U", "R", "H">>, 12, <<>>),
      <<>> }

AllowedFormats == {"csv", "json", "ndjson", "spss", "tsv", "xml"}

FormatArgs == {"csv", "xlsx", "CSV"}

\* an assert fails before the first request
Reject(exc) ==
    /\ outcome' = RaisedOutcome(exc)
    /\ pc' = "done"
    /\ calls' = <<>>
    /\ UNCHANGED <<fr, ret>>

(***************************************************************************)
(* Operations of one request (api.py 94-97, 123-135, 207-226, 238-241).    *)
(***************************************************************************)
\* the 'result' object of a response envelope, opaque to the client
Results == { <<"result">> }

ApiTokens == { <<"token-1">>, <<"token-2">> }

CallGetUser ==
    \E user_id \in IdArgs :
        /\ Begin([NoOp EXCEPT !.name = "get_user", !.id = user_id])
        /\ IF verify_user_id(user_id)
           THEN FirstDispatch(<<"/users/">> \o user_id, "GET", <<>>)
           ELSE Reject("AssertionError")

CallGetSurvey ==
    \E survey_id \in IdArgs :
        /\ Begin([NoOp EXCEPT !.name = "get_survey", !.id = survey_id])
        /\ IF verify_survey_id(survey_id)
           THEN FirstDispatch(<<"/surveys/">> \o survey_id, "GET", <<>>)
           ELSE Reject("AssertionError")

CallGetResponseSchema ==
    \E survey_id \in IdArgs :
        /\ Begin([NoOp EXCEPT !.name = "get_response_schema", !.id = survey_id])
        /\ IF verify_survey_id(survey_id)
           THEN FirstDispatch(<<"/surveys/">> \o survey_id \o <<"/response-schema">>,
                              "GET", <<>>)
           ELSE Reject("AssertionError")

CallSetUserApiAccess ==
    \E user_id \in IdArgs, access \in BOOLEAN :
        /\ Begin([NoOp EXCEPT !.name = "set_user_api_access", !.id = user_id,
                              !.flag = access])
        /\ IF verify_user_id(user_id)
           THEN FirstDispatch(<<"/users/">> \o user_id, "PUT",
                              <<"json", "accessApi", IF access THEN "on" ELSE "off">>)
           ELSE Reject("AssertionError")

CallUpdateUserApiToken ==
    \E user_id \in IdArgs :
        /\ Begin([NoOp EXCEPT !.name = "update_user_api_token", !.id = user_id])
        /\ IF verify_user_id(user_id)
           THEN FirstDispatch(<<"users/">> \o user_id \o <<"/apitoken">>, "PUT", <<>>)
           ELSE Reject("AssertionError")

\* return response.json()['result'] (get_user, get_survey, get_response_schema)
ResultReturns ==
    /\ pc = "returned"
    /\ ret.kind = "return"
    /\ op.name \in {"get_user", "get_survey", "get_response_schema"}
    /\ \E result \in Results : Return(result)
    /\ UNCHANGED <<th, fs, attrs, op, resp, loc, reqs, resps, sleeps, faults>>

\* return 1
SetUserApiAccessReturns ==
    /\ Returned("set_user_api_access", "")
    /\ Return(<<"1">>)
    /\ UNCHANGED <<th, fs, attrs, op, resp, loc, reqs, resps, sleeps, faults>>

\* return response.json()['result']['apiToken']
UpdateUserApiTokenReturns ==
    /\ Returned("update_user_api_token", "")
    /\ \E token \in ApiTokens : Return(token)
    /\ UNCHANGED <<th, fs, attrs, op, resp, loc, reqs, resps, sleeps, faults>>

(***************************************************************************)
(* get_user_api_token (api.py 228-236).                                    *)
(***************************************************************************)
TokenPath(user_id) == <<"users/">> \o user_id \o <<"/apitoken">>

CallGetUserApiToken ==
    \E user_id \in IdArgs :
        /\ Begin([NoOp EXCEPT !.name = "get_user_api_token", !.id = user_id])
        /\ IF verify_user_id(user_id)
           THEN FirstDispatch(TokenPath(user_id), "GET", <<>>)
           ELSE Reject("AssertionError")

\* lines 232-233: the first GET raised; POST
GetUserApiTokenCaught ==
    /\ pc = "returned"
    /\ ret.kind = "raise"
    /\ CatchesException
    /\ Dispatch(TokenPath(op.id), "POST", <<>>)
    /\ loc' = [loc EXCEPT !.step = "create"]
    /\ UNCHANGED <<th, fs, attrs, op, resp, reqs, resps, sleeps, faults, outcome>>

\* line 234: the POST returned; GET again
GetUserApiTokenCreated ==
    /\ Returned("get_user_api_token", "create")
    /\ Dispatch(TokenPath(op.id), "GET", <<>>)
    /\ loc' = [loc EXCEPT !.step = "reget"]
    /\ UNCHANGED <<th, fs, attrs, op, resp, reqs, resps, sleeps, faults, outcome>>

\* line 236
GetUserApiTokenReturns ==
    /\ \/ Returned("get_user_api_token", "")
       \/ Returned("get_user_api_token", "reget")
    /\ \E token \in ApiTokens : Return(token)
    /\ UNCHANGED <<th, fs, attrs, op, resp, loc, reqs, resps, sleeps, faults>>

(***************************************************************************)
(* export_survey (api.py 157-205).  The server decides the progressId, the *)
(* status and fileId of each progress answer, and the archive.             *)
(***************************************************************************)
ExportPath(survey_id) == <<"/surveys/">> \o survey_id \o <<"/export-responses">>

ProgressIds == { <<"ES_1">> }
FileIds == { <<"F1">>, <<"F2">> }

\* a progress answer that does not say 'complete' has no fileId
PendingStatuses == {"inProgress", "failed"}

Pending == {p \in 1..Len(loc.polls) : loc.polls[p].status # "complete"}

PollAnswers ==
    [status : {"complete"}, fileId : FileIds]
        \cup (IF Cardinality(Pending) < MaxPending
              THEN [status : PendingStatuses, fileId : {<<>>}]
              ELSE {})

\* archive entries, as bytes: ASCII text, a two-byte UTF-8 character, and a
\* character cut after its first byte
Entries == { <<"a,b\n", "1,2\n">>, <<"0xC3", "0xA9">>, <<"0xC3">> }

RECURSIVE SeqsUpTo(_, _)
SeqsUpTo(S, n) ==
    IF n = 0 THEN {<<>>}
    ELSE LET shorter == SeqsUpTo(S, n - 1)
         IN  shorter \cup {Append(a, e) : a \in shorter, e \in S}

Archives == SeqsUpTo(Entries, MaxEntries)

\* bytes.decode('utf-8'): whether the bytes are well-formed, and the text
RECURSIVE Decodable(_)
Decodable(bytes) ==
    IF bytes = <<>> THEN TRUE
    ELSE IF Head(bytes) = "0xC3"
         THEN Len(bytes) >= 2 /\ bytes[2] = "0xA9" /\ Decodable(Tail(Tail(bytes)))
         ELSE Head(bytes) # "0xA9" /\ Decodable(Tail(bytes))

RECURSIVE Decode(_)
Decode(bytes) ==
    IF bytes = <<>> THEN <<>>
    ELSE IF Head(bytes) = "0xC3"
         THEN <<"e-acute">> \o Decode(Tail(Tail(bytes)))
         ELSE <<Head(bytes)>> \o Decode(Tail(bytes))

UnzipReversed(archive) ==
    IF archive = <<>> THEN <<>>
    ELSE Flatten([i \in 1..Len(archive) |-> Decode(archive[Len(archive) + 1 - i])])

\* lines 195-198: out += survey_zip.read(s).decode('utf-8') for each entry
RECURSIVE Unzip(_)
Unzip(archive) ==
    IF archive = <<>> THEN <<>> ELSE Decode(Head(archive)) \o Unzip(Tail(archive))

\* str.encode('utf-8'), what a text-mode file does to the text written to it
\* where the preferred encoding is UTF-8
RECURSIVE Encode(_)
Encode(text) ==
    IF text = <<>> THEN <<>>
    ELSE IF Head(text) = "e-acute"
         THEN <<"0xC3", "0xA9">> \o Encode(Tail(text))
         ELSE <<Head(text)>> \o Encode(Tail(text))

\* the filename argument: None, or a path
Filenames == { NoFilename, <<"out.csv">> }

\* the bytes the file holds before the call
OldFile == [exists |-> TRUE, content |-> <<"old\n">>]

WriteFileAppending(file, out) == [exists |-> TRUE, content |-> file.content \o Encode(out)]

\* lines 203-204: open(filename,'w') truncates, f.write(out) stores the text
WriteFile(file, out) == [exists |-> TRUE, content |-> Encode(out)]

\* line 205: return 1
WrittenOk == <<"1">>

CompleteOrFailed(answer) == answer.status \in {"complete", "failed"}

\* line 185: check_request.json()['result']['status'] != 'complete', negated
Complete(answer) == answer.status = "complete"

CallExportSurvey ==
    \E survey_id \in IdArgs, format \in FormatArgs, filename \in Filenames :
        /\ Begin([NoOp EXCEPT !.name = "export_survey", !.id = survey_id,
                              !.format = format, !.filename = filename])
        /\ IF format \notin AllowedFormats
           THEN Reject("AssertionError")
           ELSE IF ~verify_survey_id(survey_id)
                THEN Reject("AssertionError")
                ELSE FirstDispatch(ExportPath(survey_id), "POST",
                                   <<"json", "format", format>>)

\* lines 181-182
ExportKickoffReturned ==
    /\ Returned("export_survey", "")
    /\ \E progressId \in ProgressIds :
        /\ loc' = [loc EXCEPT !.progress_id = progressId, !.step = "poll"]
        /\ Dispatch(ExportPath(op.id) \o <<"/">> \o progressId, "GET", <<>>)
    /\ UNCHANGED <<th, fs, attrs, op, resp, reqs, resps, sleeps, faults, outcome>>

ExportPollPendingWithoutSleep ==
    /\ Returned("export_survey", "poll")
    /\ \E answer \in PollAnswers :
        /\ ~Complete(answer)
        /\ loc' = [loc EXCEPT !.polls = Append(@, answer)]
    /\ Dispatch(ExportPath(op.id) \o <<"/">> \o loc.progress_id, "GET", <<>>)
    /\ UNCHANGED <<th, fs, attrs, op, resp, reqs, resps, sleeps, faults, outcome>>

\* lines 185-187: not complete; sleep and poll again
ExportPollPending ==
    /\ Returned("export_survey", "poll")
    /\ \E answer \in PollAnswers :
        /\ ~Complete(answer)
        /\ loc' = [loc EXCEPT !.polls = Append(@, answer)]
    /\ sleeps' = Append(sleeps, [ms |-> PollWaitMs, after |-> Len(reqs)])
    /\ Dispatch(ExportPath(op.id) \o <<"/">> \o loc.progress_id, "GET", <<>>)
    /\ UNCHANGED <<th, fs, attrs, op, resp, reqs, resps, faults, outcome>>

\* lines 185, 188, 191: complete; fetch the file
ExportPollComplete ==
    /\ Returned("export_survey", "poll")
    /\ \E answer \in PollAnswers :
        /\ Complete(answer)
        /\ loc' = [loc EXCEPT !.polls = Append(@, answer), !.file_id = answer.fileId,
                              !.step = "download"]
        /\ Dispatch(ExportPath(op.id) \o <<"/">> \o answer.fileId \o <<"/file">>,
                    "GET", <<>>)
    /\ UNCHANGED <<th, fs, attrs, op, resp, reqs, resps, sleeps, faults, outcome>>

\* lines 193-205
ExportDownloaded ==
    /\ Returned("export_survey", "download")
    /\ \E archive \in Archives :
        /\ loc' = [loc EXCEPT !.archive = archive, !.step = "unzipped"]
        /\ IF \E i \in 1..Len(archive) : ~Decodable(archive[i])
           THEN Raise("UnicodeDecodeError") /\ UNCHANGED fs
           ELSE IF op.filename = NoFilename
                THEN Return(Unzip(archive)) /\ UNCHANGED fs
                ELSE /\ fs' = WriteFile(fs, Unzip(archive))
                     /\ Return(WrittenOk)
    /\ UNCHANGED <<th, attrs, op, resp, reqs, resps, sleeps, faults>>

(***************************************************************************)
(* Two send_api_request calls running side by side on one agent.           *)
(***************************************************************************)
Threads == {1, 2}

NoThread == [pc |-> "idle", fr |-> NoFrame, resp |-> 0, ret |-> NoRet,
             reqs |-> <<>>, resps |-> <<>>, sleeps |-> <<>>, call |-> <<>>]

\* what each of the two callers asks for
PairCalls ==
    { [path |-> <<"http", "s://srv.example/API/v3/users?offset=2">>, method |-> "GET",
       headers |-> NoHeaders, max_retries |-> m, delay |-> 1, kw |-> <<>>]
          : m \in 0..MaxRetriesPair }
    \cup
    { [path |-> <<"http", "s://srv.example/API/v3/users/UR_1">>, method |-> "PUT",
       headers |-> Dict(("X-API-TOKEN" :> "tokB") @@ ("X-Extra" :> "v")),
       max_retries |-> m, delay |-> 3, kw |-> <<"json", "status", "active">>]
          : m \in 0..MaxRetriesPair }

\* everything but the frames of the two calls
single == <<attrs, pc, op, fr, resp, ret, loc, reqs, resps, sleeps, calls, faults, outcome, fs>>

\* lines 46-54: the call of thread t starts, its arguments bound
ThCall(t) ==
    /\ th[t].pc = "idle"
    /\ \E c \in PairCalls :
          th' = [th EXCEPT ![t].pc = "request", ![t].call = c,
                           ![t].fr = [path |-> c.path, method |-> c.method,
                                      headers |-> MergedHeaders(c.headers),
                                      url |-> Resolve(c.path), retry |-> 0,
                                      max_retries |-> c.max_retries, delay |-> c.delay,
                                      kw |-> c.kw]]
    /\ UNCHANGED single

\* line 55
ThTransport(t) ==
    /\ th[t].pc = "request"
    /\ \E status \in StatusClasses :
          th' = [th EXCEPT ![t].pc = "classify", ![t].resp = status,
                           ![t].reqs = Append(@, [method |-> th[t].fr.method,
                                                  url |-> th[t].fr.url,
                                                  headers |-> th[t].fr.headers,
                                                  kw |-> th[t].fr.kw]),
                           ![t].resps = Append(@, status)]
    /\ UNCHANGED single

ThNextRetryShared(t) ==
    1 + CHOOSE r \in {th[u].fr.retry : u \in Threads} :
            \A u \in Threads : th[u].fr.retry <= r

\* lines 57, 61: retry=retry+1, retry being the parameter of this call
ThNextRetry(t) == th[t].fr.retry + 1

\* the frame of the recursive call: the arguments of this frame passed on
ThRetryFrame(t) ==
    [path |-> th[t].fr.path, method |-> th[t].fr.method,
     headers |-> MergedHeaders(Dict(th[t].fr.headers)),
     url |-> Resolve(th[t].fr.path), retry |-> ThNextRetry(t),
     max_retries |-> th[t].fr.max_retries, delay |-> th[t].fr.delay,
     kw |-> th[t].fr.kw]

\* lines 56-57
ThRetryServerError(t) ==
    /\ th[t].pc = "classify"
    /\ th[t].resp \in ServerErrors
    /\ AttemptsRemain(th[t].fr.retry, th[t].fr.max_retries)
    /\ th' = [th EXCEPT ![t].pc = "request", ![t].fr = ThRetryFrame(t)]
    /\ UNCHANGED single

\* lines 58-61
ThRetryRateLimited(t) ==
    /\ th[t].pc = "classify"
    /\ th[t].resp = RateLimited
    /\ AttemptsRemain(th[t].fr.retry, th[t].fr.max_retries)
    /\ th' = [th EXCEPT ![t].pc = "request", ![t].fr = ThRetryFrame(t),
                        ![t].sleeps = Append(@, [ms |-> WaitTime(th[t].fr.delay,
                                                                 th[t].fr.retry),
                                                 after |-> Len(th[t].reqs)])]
    /\ UNCHANGED single

\* lines 62-63
ThRaiseApiError(t) ==
    /\ th[t].pc = "classify"
    /\ ~(th[t].resp \in ServerErrors \cup {RateLimited}
           /\ AttemptsRemain(th[t].fr.retry, th[t].fr.max_retries))
    /\ ~Ok(th[t].resp)
    /\ \E env \in ErrorEnvelopes :
          th' = [th EXCEPT ![t].pc = "returned",
                           ![t].ret = [QualtricsException(th[t].resp, env)
                                          EXCEPT !.nresp = Len(th[t].resps)]]
    /\ UNCHANGED single

\* line 64
ThReturnResponse(t) ==
    /\ th[t].pc = "classify"
    /\ Ok(th[t].resp)
    /\ th' = [th EXCEPT ![t].pc = "returned",
                        ![t].ret = [NoRet EXCEPT !.kind = "return",
                                                 !.status = th[t].resp,
                                                 !.reason = Reason(th[t].resp),
                                                 !.nresp = Len(th[t].resps)]]
    /\ UNCHANGED single

(***************************************************************************)
(* Construction (api.py 7-13) and the caller's assignment of the attribute *)
(* url_prefix reads.                                                       *)
(***************************************************************************)
Init ==
    /\ \E t \in Tokens :
          attrs = [api_token |-> t, data_csenter |-> ConstructedDataCenter,
                   data_center |-> NoAttr]
    /\ pc = "idle"
    /\ op = NoOp
    /\ fr = NoFrame
    /\ resp = 0
    /\ ret = NoRet
    /\ loc = NoLoc
    /\ reqs = <<>>
    /\ resps = <<>>
    /\ sleeps = <<>>
    /\ calls = <<>>
    /\ faults = 0
    /\ outcome = NoOutcome
    /\ fs = OldFile
    /\ th = [t \in Threads |-> NoThread]

\* agent.data_center = d, done by the caller: __init__ never creates the
\* attribute (line 13 stores data_csenter), url_prefix (line 17) reads it
AssignDataCenter ==
    /\ pc = "idle"
    /\ \E d \in DataCenters : attrs' = [attrs EXCEPT !.data_center = d]
    /\ UNCHANGED <<th, fs, pc, op, fr, resp, ret, loc, reqs, resps, sleeps, calls, faults, outcome>>

(***************************************************************************)
(* The dispatcher alone: a caller calling send_api_request.                *)
(***************************************************************************)
NextDispatch ==
    \/ AssignDataCenter
    \/ CallSendApiRequest
    \/ Transport
    \/ RetryServerError
    \/ RetryRateLimited
    \/ RaiseApiError
    \/ ReturnResponse
    \/ SendApiRequestReturns
    \/ Propagate

SpecDispatch == Init /\ [][NextDispatch]_vars

(***************************************************************************)
(* Two callers of send_api_request on one agent, their steps interleaved.  *)
(***************************************************************************)
NextPair ==
    \E t \in Threads :
        \/ ThCall(t)
        \/ ThTransport(t)
        \/ ThRetryServerError(t)
        \/ ThRetryRateLimited(t)
        \/ ThRaiseApiError(t)
        \/ ThReturnResponse(t)

SpecPair == Init /\ [][NextPair]_vars

(***************************************************************************)
(* The endpoint operations, each calling the dispatcher with its defaults. *)
(***************************************************************************)
Next ==
    \/ AssignDataCenter
    \/ CallListUsers
    \/ ListUsersFirstPage
    \/ ListUsersNextPage
    \/ CallListSurveys
    \/ ListSurveysFirstPage
    \/ ListSurveysNextPage
    \/ CallGetUser
    \/ CallGetSurvey
    \/ CallGetResponseSchema
    \/ CallSetUserApiAccess
    \/ CallUpdateUserApiToken
    \/ ResultReturns
    \/ SetUserApiAccessReturns
    \/ UpdateUserApiTokenReturns
    \/ CallGetUserApiToken
    \/ GetUserApiTokenCaught
    \/ GetUserApiTokenCreated
    \/ GetUserApiTokenReturns
    \/ CallExportSurvey
    \/ ExportKickoffReturned
    \/ ExportPollPending
    \/ ExportPollComplete
    \/ ExportDownloaded
    \/ Transport
    \/ RetryServerError
    \/ RetryRateLimited
    \/ RaiseApiError
    \/ ReturnResponse
    \/ Propagate

Spec == Init /\ [][Next]_vars


(***************************************************************************)
(* Properties of the dispatcher, checked under SpecDispatch.               *)
(***************************************************************************)
Direct == op.name = "send_api_request" /\ calls # <<>>

Settled == pc \in {"returned", "done"}

\* the first k answers are 429 and answer k+1 is a success
RateLimitedThenOk(k) ==
    /\ Len(resps) >= k + 1
    /\ \A i \in 1..k : resps[i] = 429
    /\ resps[k + 1] < 400

\* the first k answers are retryable (429, 500, 503, 504), in any mix
RetryablePrefix(k) ==
    /\ Len(resps) >= k
    /\ \A i \in 1..k : resps[i] \in {429, 500, 503, 504}

TotalSleep == SumSeq([i \in 1..Len(sleeps) |-> sleeps[i].ms])

\* C1: k < max_retries answers of 429 and then a success: the call returns
\* that success, has sent exactly k+1 requests, and has slept k times, the
\* i-th time (from 0) for delay*2^i seconds, delay*(2^k - 1) seconds in all.
C1_BackoffThenSuccess ==
    \A k \in 0..Len(resps) :
        (Direct /\ k < calls[1].max_retries /\ RateLimitedThenOk(k)) =>
            /\ Len(reqs) = k + 1
            /\ pc # "request"
            /\ Len(sleeps) = k
            /\ \A i \in 1..k :
                  /\ sleeps[i].ms = 1000 * calls[1].delay * Pow2(i - 1)
                  /\ sleeps[i].after = i
            /\ TotalSleep = 1000 * calls[1].delay * (Pow2(k) - 1)
            /\ Settled => (ret.kind = "return" /\ ret.nresp = k + 1)
            /\ pc = "done" =>
                  /\ outcome.kind = "return"
                  /\ outcome.status = resps[k + 1]
                  /\ outcome.value = <<k + 1>>

C1_Witness ==
    /\ pc = "done"
    /\ Direct
    /\ calls[1].max_retries = 3
    /\ calls[1].delay = 3
    /\ RateLimitedThenOk(2)
    /\ outcome.kind = "return"
    /\ TotalSleep = 9000

\* C2: with every answer 429 the call sends no more than max_retries+1
\* requests and raises QualtricsException once that many were answered.
C2_StopsAfterMaxRetriesPlusOne ==
    (Direct /\ \A i \in 1..Len(resps) : resps[i] = 429) =>
        /\ Len(reqs) <= calls[1].max_retries + 1
        /\ (Len(resps) = calls[1].max_retries + 1 /\ pc # "classify") =>
              (Settled /\ ret.kind = "raise")

\* C6: a first answer that is a failure other than 429, 500, 503 and 504:
\* one request, no sleep, no retry, and QualtricsException with the status
\* code, the reason phrase and the message of the envelope's meta.error.
C6_TerminalErrorRaisedAtOnce ==
    (Direct /\ Len(resps) >= 1 /\ resps[1] >= 400
            /\ resps[1] \notin {429, 500, 503, 504}) =>
        /\ Len(reqs) = 1
        /\ sleeps = <<>>
        /\ pc # "request"
        /\ Settled =>
              /\ ret.kind = "raise"
              /\ ret.envelope.hasError =>
                    /\ ret.exc = "QualtricsException"
                    /\ ret.status = resps[1]
                    /\ ret.reason = Reason(resps[1])
                    /\ ret.message = ret.envelope.errorMessage
        /\ pc = "done" =>
              /\ outcome.kind = "raise"
              /\ outcome.exc = ret.exc
              /\ outcome.status = ret.status
              /\ outcome.reason = ret.reason
              /\ outcome.message = ret.message

C6_Witness ==
    /\ pc = "done"
    /\ Direct
    /\ resps = <<502>>
    /\ outcome.exc = "QualtricsException"
    /\ outcome.status = 502
    /\ outcome.reason = "Bad Gateway"
    /\ outcome.message = "e2"

\* C7: on a client as constructed, a path that is a full URL is requested
\* unchanged, any other path is requested at
\* https://{data_center}.qualtrics.com/API/v3/ followed by the path, with the
\* data center the client was constructed with, and the request is sent.
C7_UrlResolved ==
    (Direct /\ attrs.data_center = NoAttr) =>
        /\ Settled => Len(reqs) >= 1
        /\ \A i \in 1..Len(reqs) :
              reqs[i].url =
                  IF StartsWithHttp(calls[1].path)
                  THEN calls[1].path
                  ELSE <<"http", "s://", attrs.data_csenter, ".qualtrics.com/API/v3/">>
                           \o calls[1].path

\* C8: every request of a call carries the default headers overridden by the
\* caller's: a caller's key has the caller's value, a default key the caller
\* did not give keeps its default, no other key appears; with no caller
\* headers exactly the defaults are sent.
C8_HeadersMerged ==
    Direct =>
        \A i \in 1..Len(reqs) :
            LET H == calls[1].headers
                sent == reqs[i].headers
                defaultKeys == {"Content-Type", "Accept", "X-API-TOKEN"}
                default(k) == IF k = "X-API-TOKEN" THEN attrs.api_token
                                                   ELSE "application/json"
            IN  IF H.isdict
                THEN /\ DOMAIN sent = defaultKeys \cup DOMAIN H.map
                     /\ \A k \in DOMAIN H.map : sent[k] = H.map[k]
                     /\ \A k \in defaultKeys \ DOMAIN H.map : sent[k] = default(k)
                ELSE /\ DOMAIN sent = defaultKeys
                     /\ \A k \in defaultKeys : sent[k] = default(k)

C8_Witness ==
    /\ Direct
    /\ Len(reqs) >= 2
    /\ calls[1].headers.isdict
    /\ reqs[2].headers["X-API-TOKEN"] = "tokB"
    /\ reqs[2].headers["X-Extra"] = "v"
    /\ reqs[2].headers["Accept"] = "application/json"

\* C10: at most max_retries retryable answers (429, 500, 503, 504 in any
\* mix) and then a success: no error is raised on the way and the call
\* returns that success.
C10_TransientsAbsorbed ==
    \A k \in 0..Len(resps) :
        (Direct /\ k <= calls[1].max_retries /\ RetryablePrefix(k)) =>
            /\ (k >= 1 /\ Len(resps) = k) => ret.kind = "none"
            /\ (Len(resps) >= k + 1 /\ resps[k + 1] < 400) =>
                  /\ Len(reqs) = k + 1
                  /\ pc # "request"
                  /\ Settled => (ret.kind = "return" /\ ret.nresp = k + 1)
                  /\ pc = "done" => (outcome.kind = "return" /\ outcome.value = <<k + 1>>)

C10_Witness ==
    /\ pc = "done"
    /\ Direct
    /\ calls[1].max_retries = 3
    /\ resps = <<504, 429, 500, 200>>
    /\ outcome.kind = "return"


(***************************************************************************)
(* Properties of the endpoint operations, checked under Spec.              *)
(***************************************************************************)
\* the HTTP requests made for the i-th send_api_request call of the operation
RequestsOf(i) ==
    calls[i].first .. (IF i < Len(calls) THEN calls[i + 1].first - 1 ELSE Len(reqs))

\* the server has returned n >= 1 pages, nextPage a URL on all but the last
\* and null on the last
WholeCollectionServed ==
    /\ loc.pages # <<>>
    /\ loc.pages[Len(loc.pages)].nextPage.kind = "null"
    /\ \A i \in 1..(Len(loc.pages) - 1) : loc.pages[i].nextPage.kind = "url"

ListsEverything ==
    \/ op.name = "list_users"
    \/ op.name = "list_surveys" /\ ~op.flag

\* C3: list_users and list_surveys (first_page_only=False) return the
\* elements of all n pages in arrival order, make exactly n calls of the
\* dispatcher, and request each nextPage URL as the server supplied it.
C3_PagesConcatenated ==
    ListsEverything =>
        /\ Len(calls) <= Len(loc.pages) + 1
        /\ \A i \in 2..Len(calls) :
              /\ calls[i].path = loc.pages[i - 1].nextPage.url
              /\ calls[i].method = "GET"
              /\ \A j \in RequestsOf(i) : reqs[j].url = loc.pages[i - 1].nextPage.url
        /\ WholeCollectionServed =>
              /\ pc = "done"
              /\ outcome.kind = "return"
              /\ outcome.value = Flatten([i \in 1..Len(loc.pages) |-> loc.pages[i].elements])
              /\ Len(calls) = Len(loc.pages)

C3_Witness ==
    /\ pc = "done"
    /\ op.name = "list_surveys"
    /\ ~op.flag
    /\ WholeCollectionServed
    /\ Len(loc.pages) = 3
    /\ Len(calls) = 3
    /\ Len(reqs) = 4
    /\ outcome.value = <<"a", "a", "b", "a", "a", "a">>


Exporting == op.name = "export_survey" /\ calls # <<>>

\* the call that fetches the file, when one was made: the last one
FileCallMade == loc.step \in {"download", "unzipped"}

PollCalls == 2..(IF FileCallMade THEN Len(calls) - 1 ELSE Len(calls))

\* the last answer to the i-th call was a success
CallSucceeded(i) ==
    /\ RequestsOf(i) # {}
    /\ resps[IF i < Len(calls) THEN calls[i + 1].first - 1 ELSE Len(resps)] < 400

C5_ValidationFirst ==
    LET userOps == {"get_user", "set_user_api_access", "get_user_api_token",
                    "update_user_api_token"}
        surveyOps == {"get_survey", "export_survey", "get_response_schema"}
        badId == \/ /\ op.name \in userOps
                    /\ ~ReMatch({<<"U", "R", "_">>, <<"U", "R", "H", "_">>}, op.id)
                 \/ /\ op.name \in surveyOps
                    /\ ~ReMatch({<<"S", "V", "_">>}, op.id)
        badFormat == /\ op.name = "export_survey"
                     /\ op.format \notin {"csv", "json", "ndjson", "spss", "tsv", "xml"}
    IN  (badId \/ badFormat) =>
            /\ pc = "done"
            /\ reqs = <<>>
            /\ sleeps = <<>>
            /\ calls = <<>>
            /\ outcome.kind = "raise"
            /\ outcome.exc = "AssertionError"

C5_Witness ==
    /\ pc = "done"
    /\ op.name = "get_user_api_token"
    /\ op.id = Id(<<"U", "R", "_">>, 15, <<"\n", "\n">>)
    /\ HasDataCenter
    /\ outcome.exc = "AssertionError"
    /\ reqs = <<>>

\* C9: the string export_survey returns is the decoded text of the entries
\* of the archive, in listing order, with nothing between or around them;
\* for one entry it is that entry's text.
C9_EntriesConcatenated ==
    (Exporting /\ loc.step = "unzipped") =>
        /\ pc = "done"
        /\ (\A i \in 1..Len(loc.archive) : Decodable(loc.archive[i])) =>
              /\ outcome.kind = "return"
              /\ op.filename = NoFilename =>
                    /\ outcome.value =
                          Flatten([i \in 1..Len(loc.archive) |-> Decode(loc.archive[i])])
                    /\ Len(loc.archive) = 1 => outcome.value = Decode(loc.archive[1])
        /\ outcome.kind = "return" =>
              \A i \in 1..Len(loc.archive) : Decodable(loc.archive[i])

C9_Witness ==
    /\ pc = "done"
    /\ Exporting
    /\ Len(loc.polls) = 3
    /\ loc.polls[1].status = "inProgress"
    /\ loc.polls[2].status = "inProgress"
    /\ loc.polls[3] = [status |-> "complete", fileId |-> <<"F1">>]
    /\ loc.archive = << <<"a,b\n", "1,2\n">> >>
    /\ op.filename = NoFilename
    /\ outcome.kind = "return"
    /\ outcome.value = <<"a,b\n", "1,2\n">>

(***************************************************************************)
(* End of a collection.                                                    *)
(***************************************************************************)
\* the page served last names no next page: nextPage is null, or is missing
CollectionEnded ==
    /\ loc.pages # <<>>
    /\ loc.pages[Len(loc.pages)].nextPage.kind \in {"null", "absent"}

\* C11: in list_users and in list_surveys a page whose nextPage is null or
\* absent, the first page included, ends the collection: the elements of the
\* pages served are returned, no error is raised and no request follows.
C11_EndOfCollection ==
    (op.name \in {"list_users", "list_surveys"} /\ CollectionEnded) =>
        /\ pc = "done"
        /\ outcome.kind = "return"
        /\ outcome.value = Flatten([i \in 1..Len(loc.pages) |-> loc.pages[i].elements])
        /\ Len(calls) = Len(loc.pages)

(***************************************************************************)
(* The attempt counter, the sleeps and the frame of one call.              *)
(***************************************************************************)
Retryable == {429, 500, 503, 504}

\* C14: one attempt counter serves both classes of transient answer: every
\* retry, after a 429 or after a 500/503/504, advances it by one; the wait
\* before a 429 retry is delay*2^a seconds, a being the number of retryable
\* answers of either class the call has retried before; and an answer of
\* either class is retried up to the same counter value.
C14_OneAttemptCounter ==
    Direct =>
        /\ pc = "request" => fr.retry = Len(reqs)
        /\ pc = "classify" => fr.retry = Len(reqs) - 1
        /\ \A i \in 1..Len(sleeps) :
              LET n == sleeps[i].after IN
              /\ n \in 1..Len(resps)
              /\ resps[n] = 429
              /\ \A j \in 1..(n - 1) : resps[j] \in Retryable
              /\ sleeps[i].ms = 1000 * calls[1].delay * Pow2(n - 1)
        /\ \A n \in 1..Len(resps) :
              resps[n] \in Retryable =>
                 IF n - 1 <= calls[1].max_retries
                 THEN ~(Settled /\ Len(reqs) = n)
                 ELSE pc # "request" /\ Len(reqs) = n

C14_Witness ==
    /\ Direct
    /\ pc = "done"
    /\ calls[1].max_retries = 3
    /\ calls[1].delay = 3
    /\ resps = <<500, 429, 504, 429, 503>>
    /\ sleeps = << [ms |-> 6000, after |-> 2], [ms |-> 24000, after |-> 4] >>
    /\ outcome.kind = "raise"
    /\ outcome.status = 503

\* C15: the dispatcher sleeps only straight after an answer of 429 that it
\* goes on to retry, once for each; a 500/503/504 is retried without a sleep,
\* and there is no sleep before the first request, after a success, or before
\* an error is raised.
C15_SleepsOnlyBefore429Retry ==
    Direct =>
        /\ \A i \in 1..Len(sleeps) :
              LET n == sleeps[i].after IN
              /\ n \in 1..Len(resps)
              /\ resps[n] = 429
              /\ Len(reqs) > n \/ (Len(reqs) = n /\ pc = "request")
              /\ \A j \in 1..Len(sleeps) : sleeps[j].after = n => j = i
        /\ \A n \in 1..Len(resps) :
              (resps[n] = 429 /\ (Len(reqs) > n \/ pc = "request")) =>
                 \E i \in 1..Len(sleeps) : sleeps[i].after = n

C15_Witness ==
    /\ Direct
    /\ pc = "done"
    /\ calls[1].max_retries = 2
    /\ resps = <<503, 429, 500, 429>>
    /\ Len(sleeps) = 1
    /\ sleeps[1].after = 2
    /\ outcome.kind = "raise"
    /\ outcome.status = 429

\* C16: a retry changes the attempt counter and nothing else: every request
\* of a call has the URL, method, merged headers and keyword arguments
\* (params, body) of its first request, and max_retries and delay keep the
\* values the caller gave.
C16_RetryKeepsTheRequest ==
    Direct =>
        /\ \A i \in 1..Len(reqs) : reqs[i] = reqs[1]
        /\ pc \in {"request", "classify"} =>
              /\ fr.max_retries = calls[1].max_retries
              /\ fr.delay = calls[1].delay
              /\ fr.path = calls[1].path
              /\ fr.method = calls[1].method
              /\ fr.kw = calls[1].kw
              /\ fr.headers = MergedHeaders(calls[1].headers)
              /\ \A i \in 1..Len(reqs) :
                    reqs[i] = [method |-> fr.method, url |-> fr.url,
                               headers |-> fr.headers, kw |-> fr.kw]

C16_Witness ==
    /\ Direct
    /\ pc = "classify"
    /\ calls[1].method = "PUT"
    /\ calls[1].kw = <<"json", "status", "active">>
    /\ calls[1].headers # NoHeaders
    /\ calls[1].max_retries = 2
    /\ calls[1].delay = 3
    /\ resps = <<429, 503, 200>>
    /\ Len(reqs) = 3
    /\ fr.retry = 2

(***************************************************************************)
(* The requests and sleeps of an export.                                   *)
(***************************************************************************)
AllSucceeded == \A j \in 1..Len(resps) : Ok(resps[j])

\* C18: when every request succeeds and the i-th poll is the first to say
\* 'complete', the export has sent one kickoff POST, then i polls with one
\* sleep of 0.5 s between consecutive polls (i-1 sleeps), then one file GET,
\* i+2 requests in all, and has ended.
C18_ExportCounts ==
    (Exporting /\ AllSucceeded) =>
        LET i == Len(loc.polls) IN
        /\ \A p \in 1..(i - 1) : ~Complete(loc.polls[p])
        /\ \A k \in 1..Len(sleeps) : sleeps[k] = [ms |-> 500, after |-> k + 1]
        /\ (i >= 1 /\ Complete(loc.polls[i])) =>
              /\ Len(sleeps) = i - 1
              /\ Len(calls) = i + 2
              /\ Len(reqs) \in {i + 1, i + 2}
              /\ reqs[1].method = "POST"
              /\ reqs[1].url = Resolve(ExportPath(op.id))
              /\ \A j \in 2..(i + 1) :
                    /\ reqs[j].method = "GET"
                    /\ reqs[j].url = Resolve(ExportPath(op.id) \o <<"/">> \o loc.progress_id)
              /\ Len(reqs) = i + 2 =>
                    /\ reqs[i + 2].method = "GET"
                    /\ reqs[i + 2].url =
                          Resolve(ExportPath(op.id) \o <<"/">> \o loc.polls[i].fileId
                                     \o <<"/file">>)
              /\ loc.step = "unzipped" => (pc = "done" /\ Len(reqs) = i + 2)
        /\ (pc = "done" /\ reqs # <<>>) => (i >= 1 /\ Complete(loc.polls[i]))

C18_Witness ==
    /\ Exporting
    /\ AllSucceeded
    /\ pc = "done"
    /\ outcome.kind = "return"
    /\ Len(loc.polls) = 3
    /\ loc.polls[1].status = "failed"
    /\ loc.polls[2].status = "inProgress"
    /\ Complete(loc.polls[3])
    /\ Len(reqs) = 5
    /\ sleeps = << [ms |-> 500, after |-> 2], [ms |-> 500, after |-> 3] >>

\* the sleeps of the poll loop (line 186); a backoff sleep is 10 s at least
PollSleeps == {k \in 1..Len(sleeps) : sleeps[k].ms = PollWaitMs}

NoPollComplete ==
    /\ loc.polls # <<>>
    /\ \A p \in 1..Len(loc.polls) : loc.polls[p].status # "complete"

\* C19: the poll loop has no bound and no failure state of its own.  While
\* no progress answer has said 'complete' -- whatever else it said, 'failed'
\* included -- the export has slept 0.5 s and polled again after each answer,
\* has not requested the file, has returned nothing, and has ended only if a
\* dispatch raised.
C19_PollsUntilComplete ==
    (Exporting /\ NoPollComplete) =>
        /\ loc.step = "poll"
        /\ Cardinality(PollSleeps) = Len(loc.polls)
        /\ Len(calls) = Len(loc.polls) + 2
        /\ \A i \in 2..Len(calls) :
              calls[i].path = ExportPath(op.id) \o <<"/">> \o loc.progress_id
        /\ \A j \in 1..Len(reqs) :
              reqs[j].url \in {Resolve(calls[1].path), Resolve(calls[2].path)}
        /\ outcome.kind # "return"
        /\ pc = "done" => (outcome.kind = "raise" /\ ret.kind = "raise")

C19_Witness ==
    /\ Exporting
    /\ NoPollComplete
    /\ Len(loc.polls) = 2
    /\ loc.polls[1].status = "failed"
    /\ loc.polls[2].status = "failed"
    /\ pc = "classify"
    /\ resps = <<200, 200, 200, 200>>
    /\ Len(calls) = 4
    /\ Len(sleeps) = 2

(***************************************************************************)
(* A dispatch that fails inside a multi-request operation.                 *)
(***************************************************************************)
MultiRequest == op.name \in {"list_users", "list_surveys", "export_survey"} /\ calls # <<>>

\* C17: when a dispatch made by list_users, list_surveys or export_survey --
\* for the first page or a later one, the kickoff, a poll or the download --
\* ends in an error, the operation raises that error: it returns no list and
\* no string, writes no file, and sends no request after the failed one.
C17_NoPartialResult ==
    (MultiRequest /\ ret.kind = "raise") =>
        /\ pc \in {"returned", "done"}
        /\ Len(reqs) = Len(resps)
        /\ ret.exc = "QualtricsException" =>
              /\ ret.nresp = Len(resps)
              /\ ret.nresp \in RequestsOf(Len(calls))
              /\ ret.status = resps[Len(resps)]
        /\ fs = OldFile
        /\ outcome.kind # "return"
        /\ outcome.value = <<>>
        /\ pc = "done" => outcome = OutcomeOfRet(ret)

C17_Witness ==
    /\ op.name = "export_survey"
    /\ op.filename # NoFilename
    /\ pc = "done"
    /\ loc.step = "poll"
    /\ Len(loc.polls) = 1
    /\ resps = <<200, 200, 503, 503, 503, 503, 503, 503, 503>>
    /\ Len(calls) = 3
    /\ outcome.kind = "raise"
    /\ outcome.exc = "QualtricsException"
    /\ outcome.status = 503
    /\ fs = OldFile

C17_WitnessLaterPage ==
    /\ op.name = "list_users"
    /\ pc = "done"
    /\ Len(loc.pages) = 2
    /\ loc.acc # <<>>
    /\ resps = <<200, 200, 404>>
    /\ outcome.exc = "QualtricsException"
    /\ outcome.status = 404

(***************************************************************************)
(* The file export_survey writes.                                          *)
(***************************************************************************)
\* the string export_survey returns for the archive when no filename is given
ExportedText == Flatten([i \in 1..Len(loc.archive) |-> Decode(loc.archive[i])])

GettingToken == op.name = "get_user_api_token" /\ calls # <<>>

TokenMethods == <<"GET", "POST", "GET">>

C20_WitnessPostFails ==
    /\ GettingToken
    /\ pc = "done"
    /\ Len(calls) = 2
    /\ outcome.kind = "raise"

(***************************************************************************)
(* Two calls side by side.                                                 *)
(***************************************************************************)
\* the answers thread t has retried so far
ThRetried(t) == IF th[t].pc = "request" THEN Len(th[t].reqs) ELSE Len(th[t].reqs) - 1

\* C12: two send_api_request calls whose steps interleave on one agent share
\* no retry state: the attempt counter, the requests (headers included), the
\* waits and the outcome of each call are those given by its own arguments
\* and its own answers, whatever the other call has done.
C12_CallsShareNothing ==
    \A t \in Threads :
        LET c == th[t] IN
        c.pc # "idle" =>
            /\ c.fr.retry = ThRetried(t)
            /\ c.fr.max_retries = c.call.max_retries
            /\ c.fr.delay = c.call.delay
            /\ Len(c.reqs) <= c.call.max_retries + 2
            /\ \A i \in 1..Len(c.reqs) :
                  c.reqs[i] = [method |-> c.call.method, url |-> c.call.path,
                               headers |-> MergedHeaders(c.call.headers),
                               kw |-> c.call.kw]
            /\ Len(c.sleeps) = Cardinality({n \in 1..ThRetried(t) : c.resps[n] = 429})
            /\ \A i \in 1..Len(c.sleeps) :
                  LET n == c.sleeps[i].after IN
                  /\ n \in 1..ThRetried(t)
                  /\ c.resps[n] = 429
                  /\ c.sleeps[i].ms = 1000 * c.call.delay * Pow2(n - 1)
                  /\ \A j \in 1..(i - 1) : c.sleeps[j].after < n
            /\ \A n \in 1..ThRetried(t) : c.resps[n] \in {429, 500, 503, 504}
            /\ c.pc = "returned" =>
                  LET last == c.resps[Len(c.resps)] IN
                  /\ c.ret.nresp = Len(c.resps)
                  /\ c.ret.kind = "return" <=> Ok(last)
                  /\ c.ret.kind = "return" => c.ret.status = last
                  /\ c.ret.exc = "QualtricsException" => c.ret.status = last
                  /\ last \in {429, 500, 503, 504} =>
                        Len(c.resps) = c.call.max_retries + 2

C12_Witness ==
    /\ th[1].pc = "request"
    /\ th[1].call.max_retries = 1
    /\ th[1].call.delay = 1
    /\ th[1].call.headers = NoHeaders
    /\ th[1].resps = <<429, 429>>
    /\ th[1].fr.retry = 2
    /\ th[1].sleeps = << [ms |-> 1000, after |-> 1], [ms |-> 2000, after |-> 2] >>
    /\ th[2].pc = "request"
    /\ th[2].call.max_retries = 0
    /\ th[2].call.delay = 3
    /\ th[2].call.headers # NoHeaders
    /\ th[2].resps = <<429>>
    /\ th[2].fr.retry = 1
    /\ th[2].sleeps = << [ms |-> 3000, after |-> 1] >>
    /\ th[2].fr.headers # th[1].fr.headers

=============================================================================
